---- MODULE Spec2Model ----
(***************************************************************************)
(* A model of src/main.py: the per-image normaliser                        *)
(* resize_and_center_image, the batch driver process_directory and the     *)
(* controller handlers start_processing and check_queue.                   *)
(*                                                                         *)
(* Strings are sequences of one-character strings.  An image is a record   *)
(* [ok, W, H, px]: ok says whether the file decodes, W and H are its size  *)
(* and px maps the painted positions <<x, y>> to their RGBA value; every   *)
(* other pixel is opaque white.                                            *)
(***************************************************************************)
EXTENDS Integers, Sequences, FiniteSets, TLC

VARIABLES
    \* the text functions (the eligibility filter and the flagged path)
    text, tpc, eligible, flagged_path,
    \* the target dimensions
    crop_w, crop_h, dpc, new_dims,
    \* one call of resize_and_center_image
    img, output_path, dirs, io_fault, npc, outcome,
    \* the file system: the input directory, its entries in listing order,
    \* the directories that exist and the files of the output directory
    input_folder, listing, folders, files,
    \* the worker thread running process_directory (events and results
    \* record what it has put on the queue and what each call returned)
    wpc, image_files, total_files, idx, processed_count, success_count,
    results, events,
    \* the controller
    progress_queue, folder_var, button_state, progress_var, progress_max,
    status_var, runs

textVars == <<text, tpc, eligible, flagged_path>>
dimVars == <<crop_w, crop_h, dpc, new_dims>>
normVars == <<img, output_path, dirs, io_fault, npc, outcome>>
fsVars == <<input_folder, listing, folders, files>>
workerVars == <<wpc, image_files, total_files, idx, processed_count,
                success_count, results, events>>
guiVars == <<folder_var, button_state, progress_var, progress_max,
             status_var, runs>>
batchVars == <<fsVars, workerVars, progress_queue, guiVars>>
vars == <<textVars, dimVars, normVars, batchVars>>

(***************************************************************************)
(* Bounds of the model.                                                    *)
(***************************************************************************)
MaxTextLen == 5
MaxCropSide == 100
MidSide == 12
MaxFiles == 2
MaxRuns == 2

(***************************************************************************)
(* Program constants, and the bits that follow the leading bit of the       *)
(* mantissa of a Python float.                                             *)
(***************************************************************************)
WhiteThreshold == 250
margin == 5
TargetSide == 485
MantissaBits == 52

Range(s) == {s[i] : i \in DOMAIN s}

Min(a, b) == IF a < b THEN a ELSE b
Max(a, b) == IF a > b THEN a ELSE b

SetMin(S) == CHOOSE m \in S : \A n \in S : m <= n
SetMax(S) == CHOOSE m \in S : \A n \in S : m >= n

RECURSIVE Pow2(_)
Pow2(n) == IF n = 0 THEN 1 ELSE 2 * Pow2(n - 1)

(***************************************************************************)
(* Strings.                                                                *)
(***************************************************************************)
\* str.lower(), on the characters the model uses
LowerChar(c) ==
    CASE c = "P" -> "p"
      [] c = "N" -> "n"
      [] c = "G" -> "g"
      [] c = "J" -> "j"
      [] c = "E" -> "e"
      [] c = "W" -> "w"
      [] c = "B" -> "b"
      [] c = "I" -> "i"
      [] c = "F" -> "f"
      [] c = "A" -> "a"
      [] c = "X" -> "x"
      [] OTHER -> c

Lower(s) == [i \in DOMAIN s |-> LowerChar(s[i])]

\* str.endswith(suffix)
EndsWith(s, suffix) ==
    /\ Len(s) >= Len(suffix)
    /\ SubSeq(s, Len(s) - Len(suffix) + 1, Len(s)) = suffix

\* the tuple handed to endswith in process_directory
ImageSuffixes ==
    { <<"p", "n", "g">>, <<"j", "p", "g">>, <<"j", "p", "e", "g">>,
      <<"w", "e", "b", "p">>, <<"g", "i", "f">> }

\* the filter of the list comprehension: f.lower().endswith((...))
IsImageFile(f) == \E suffix \in ImageSuffixes : EndsWith(Lower(f), suffix)

Marker ==
    <<"_", "C", "H", "E", "C", "K", "_", "P", "I", "X", "E", "L", "A", "T",
      "I", "O", "N">>

\* s.replace(".", "_CHECK_PIXELATION."): every "." of s is replaced
RECURSIVE ReplaceDots(_)
ReplaceDots(s) ==
    IF s = <<>> THEN <<>>
    ELSE (IF Head(s) = "." THEN Marker \o <<".">> ELSE <<Head(s)>>)
         \o ReplaceDots(Tail(s))

\* the conditional expression that sets flagged_path
FlaggedPath(p) ==
    IF "." \in Range(p) THEN ReplaceDots(p) ELSE p \o Marker

\* s.rfind(c), 0 when c is not in s (positions count from 1)
RFind(s, c) ==
    IF c \in Range(s) THEN SetMax({i \in DOMAIN s : s[i] = c}) ELSE 0

\* os.path.splitext(p): the extension starts at the last "." of the last
\* path component, unless only dots precede it in that component
SplitExt(p) ==
    LET sepIndex == RFind(p, "/")
        dotIndex == RFind(p, ".")
    IN  IF /\ dotIndex > sepIndex
           /\ \E i \in (sepIndex + 1)..(dotIndex - 1) : p[i] # "."
        THEN [root |-> SubSeq(p, 1, dotIndex - 1),
              ext |-> SubSeq(p, dotIndex, Len(p))]
        ELSE [root |-> p, ext |-> <<>>]

\* os.path.join(folder, name)
PathJoin(folder, name) ==
    IF name # <<>> /\ Head(name) = "/" THEN name
    ELSE IF folder = <<>> \/ folder[Len(folder)] = "/" THEN folder \o name
    ELSE folder \o <<"/">> \o name

\* os.path.dirname(p)
DirName(p) ==
    LET sepIndex == RFind(p, "/")
    IN  IF sepIndex <= 1 THEN SubSeq(p, 1, sepIndex)
        ELSE SubSeq(p, 1, sepIndex - 1)

\* os.path.basename(p)
BaseName(p) == SubSeq(p, RFind(p, "/") + 1, Len(p))

PngExt == <<".", "p", "n", "g">>

\* the destination of one file in process_directory
OutputPath(output_folder, filename) ==
    PathJoin(output_folder, SplitExt(filename).root \o PngExt)

(***************************************************************************)
(* The target dimensions.  TruncScale(s, l) is int((s / l) * 485) for      *)
(* 1 <= s <= l, with the division and the product rounded to the nearest   *)
(* double (ties to even) as Python floats are.  With q the double nearest  *)
(* to s / l, of exponent -a and 53-bit mantissa m, m * l = s * 2^(52+a) - e*)
(* where e is the signed remainder of the rounding, so that the product is *)
(* 485 * s / l - 485 * e / (l * 2^(52+a)).  When l does not divide 485 * s *)
(* the error is far smaller than the distance 1 / l to the next integer    *)
(* and the truncation is the floor of the exact quotient.  When l divides  *)
(* 485 * s, the quotient being k, the product rounds to a double below k   *)
(* exactly when e > 0 and the error exceeds half the gap below k.          *)
(***************************************************************************)
\* the least a >= 1 with s * 2^a >= l, for s < l
RECURSIVE BinaryExponent(_, _, _)
BinaryExponent(s, l, a) ==
    IF s * Pow2(a) >= l THEN a ELSE BinaryExponent(s, l, a + 1)

\* the largest E with 2^E <= k
RECURSIVE FloorLog2(_, _)
FloorLog2(k, E) == IF Pow2(E + 1) <= k THEN FloorLog2(k, E + 1) ELSE E

\* n steps of binary long division by l: the remainder and the last bit
RECURSIVE LongDivision(_, _, _, _)
LongDivision(r, bit, n, l) ==
    IF n = 0 THEN [r |-> r, bit |-> bit]
    ELSE LongDivision((2 * r) % l, (2 * r) \div l, n - 1, l)

\* the signed remainder e of rounding s * 2^(52+a) / l to the nearest integer
RoundingRemainder(s, l, a) ==
    LET d == LongDivision(s % l, 0, MantissaBits + a, l)
    IN  IF 2 * d.r < l THEN d.r
        ELSE IF 2 * d.r > l THEN d.r - l
        ELSE IF d.bit = 0 THEN d.r ELSE d.r - l

RoundScale(s, l) == (2 * TargetSide * s + l) \div (2 * l)

\* int((s / l) * 485)
TruncScale(s, l) ==
    LET k == (TargetSide * s) \div l
    IN  IF (TargetSide * s) % l # 0 \/ s = l THEN k
        ELSE LET a == BinaryExponent(s, l, 1)
                 e == RoundingRemainder(s, l, a)
                 E == FloorLog2(k, 0)
                 gap == IF Pow2(E) = k THEN 1 ELSE 2
             IN  IF e > 0 /\ 2 * TargetSide * e > gap * l * Pow2(E + a - 1)
                 THEN k - 1 ELSE k

TargetDimsRounded(w, h) ==
    IF w > h THEN [new_w |-> TargetSide, new_h |-> RoundScale(h, w)]
    ELSE [new_w |-> RoundScale(w, h), new_h |-> TargetSide]

\* "Determine resizing dimensions"
TargetDims(w, h) ==
    IF w > h THEN [new_w |-> TargetSide, new_h |-> TruncScale(h, w)]
    ELSE [new_w |-> TruncScale(w, h), new_h |-> TargetSide]

(***************************************************************************)
(* resize_and_center_image.                                                *)
(***************************************************************************)
\* Image.alpha_composite(bg, img) on one pixel, bg opaque white: a fully
\* transparent pixel shows the background, an opaque one itself
Composite(rgba) ==
    IF rgba[4] = 0 THEN <<255, 255, 255, 255>>
    ELSE <<rgba[1], rgba[2], rgba[3], 255>>

\* (r < 250) | (g < 250) | (b < 250)
NonWhite(c) ==
    c[1] < WhiteThreshold \/ c[2] < WhiteThreshold \/ c[3] < WhiteThreshold

\* np.where(non_white.T), as the set of the positions <<x, y>>
NonWhitePositions(image) ==
    {p \in DOMAIN image.px : NonWhite(Composite(image.px[p]))}

BoundingBoxNoClamp(image) ==
    LET pos == NonWhitePositions(image)
        min_x == SetMin({p[1] : p \in pos}) - margin
        min_y == SetMin({p[2] : p \in pos}) - margin
        max_x == SetMax({p[1] : p \in pos}) + margin
        max_y == SetMax({p[2] : p \in pos}) + margin
    IN  <<min_x, min_y, max_x + 1, max_y + 1>>

\* "Find bounding box", "Add a small margin", "Create the bounding box"
BoundingBox(image) ==
    LET pos == NonWhitePositions(image)
        min_x == Max(0, SetMin({p[1] : p \in pos}) - margin)
        min_y == Max(0, SetMin({p[2] : p \in pos}) - margin)
        max_x == Min(image.W - 1, SetMax({p[1] : p \in pos}) + margin)
        max_y == Min(image.H - 1, SetMax({p[2] : p \in pos}) + margin)
    IN  <<min_x, min_y, max_x + 1, max_y + 1>>

NeedsFlagLongSide(w, h) == Max(w, h) < TargetSide

\* the condition of "if min(w, h) < 485"
NeedsFlag(w, h) == Min(w, h) < TargetSide

\* the value the function returns, with what it computed and what it wrote
\* (an empty path: none)
Outcome(result, stage, bbox, dims, flagged, saved) ==
    [result |-> result, stage |-> stage, bbox |-> bbox,
     new_w |-> dims.new_w, new_h |-> dims.new_h,
     flagged_path |-> flagged, saved |-> saved]

NoDims == [new_w |-> 0, new_h |-> 0]

NoOutcome == Outcome(FALSE, "none", <<>>, NoDims, <<>>, <<>>)

\* resize_and_center_image(image_path, output_path): image is what is at
\* image_path, existing_dirs the directories that exist and write_fault
\* whether the write of the output fails
ResizeAndCenterImage(image, out, existing_dirs, write_fault) ==
    IF ~image.ok THEN Outcome(FALSE, "open", <<>>, NoDims, <<>>, <<>>)
    ELSE IF NonWhitePositions(image) = {}
    THEN Outcome(FALSE, "no_subject", <<>>, NoDims, <<>>, <<>>)
    ELSE
      LET bbox == BoundingBox(image)
          w == bbox[3] - bbox[1]
          h == bbox[4] - bbox[2]
          dims == TargetDims(w, h)
          flagged == IF NeedsFlag(w, h) THEN FlaggedPath(out) ELSE <<>>
          save_path == IF flagged # <<>> THEN flagged ELSE out
      IN  IF dims.new_w < 1 \/ dims.new_h < 1
          THEN Outcome(FALSE, "resize", bbox, dims, flagged, <<>>)
          ELSE IF DirName(save_path) \notin existing_dirs \/ write_fault
          THEN Outcome(FALSE, "save", bbox, dims, flagged, <<>>)
          ELSE Outcome(TRUE, "saved", bbox, dims, flagged, save_path)

(***************************************************************************)
(* The inputs.                                                             *)
(***************************************************************************)
Alphabet == {"a", ".", "/", "p", "n", "g", "G"}

Texts == UNION {[1..n -> Alphabet] : n \in 0..MaxTextLen}

\* what os.listdir can return: a name is not empty, holds no separator and
\* is neither "." nor ".."
IsEntryName(s) ==
    /\ s # <<>>
    /\ "/" \notin Range(s)
    /\ s \notin {<<".">>, <<".", ".">>}

Sides == {1, MidSide, TargetSide, TargetSide + 1}

EdgeCoords(n) ==
    {c \in {0, margin, margin + 1, n - 1 - margin, n - 1} : 0 <= c /\ c < n}

CornerCoords(n) == {0, n - 1}

Black == <<0, 0, 0, 255>>

Palette ==
    { Black, <<0, 0, 0, 0>>, <<250, 250, 250, 255>>, <<249, 250, 250, 255>>,
      <<250, 249, 250, 255>>, <<250, 250, 249, 255>> }

CornerPalette == {Black, <<255, 255, 255, 255>>}

\* a w x h image painted c1 at p1 and then c2 at p2
Painted(w, h, p1, c1, p2, c2) ==
    [ok |-> TRUE, W |-> w, H |-> h, px |-> (p2 :> c2) @@ (p1 :> c1)]

\* a file that does not decode
Corrupt == [ok |-> FALSE, W |-> 0, H |-> 0, px |-> <<>>]

OutputPaths ==
    { <<"o", "/", "a", ".", "p", "n", "g">>,
      <<"o", ".", "d", "/", "a", ".", "p", "n", "g">>,
      <<"o", "/", "a">> }

(***************************************************************************)
(* The states in which a part of the program has not been started.         *)
(***************************************************************************)
TextIdle ==
    /\ text = <<>> /\ tpc = "idle" /\ eligible = FALSE /\ flagged_path = <<>>

DimIdle ==
    /\ crop_w = 1 /\ crop_h = 1 /\ dpc = "idle" /\ new_dims = NoDims

NormIdle ==
    /\ img = Corrupt /\ output_path = <<>> /\ dirs = {} /\ io_fault = FALSE
    /\ npc = "idle" /\ outcome = NoOutcome

BatchIdle ==
    /\ input_folder = <<>> /\ listing = <<>> /\ folders = {} /\ files = {}
    /\ wpc = "idle" /\ image_files = <<>> /\ total_files = 0 /\ idx = 0
    /\ processed_count = 0 /\ success_count = 0
    /\ results = <<>> /\ events = <<>>
    /\ progress_queue = <<>> /\ folder_var = <<>>
    /\ button_state = "disabled" /\ progress_var = 0 /\ progress_max = 100
    /\ status_var = <<"none">> /\ runs = 0

(***************************************************************************)
(* The text functions: the filter of process_directory applied to one      *)
(* directory entry, and the flagged path of one destination path.          *)
(***************************************************************************)
InitText ==
    /\ text \in Texts
    /\ tpc = "ready" /\ eligible = FALSE /\ flagged_path = <<>>
    /\ DimIdle /\ NormIdle /\ BatchIdle

FilterEntry ==
    /\ tpc = "ready"
    /\ IsEntryName(text)
    /\ eligible' = IsImageFile(text)
    /\ tpc' = "filtered"
    /\ UNCHANGED <<text, flagged_path, dimVars, normVars, batchVars>>

FlagPath ==
    /\ tpc = "ready"
    /\ flagged_path' = FlaggedPath(text)
    /\ tpc' = "flagged"
    /\ UNCHANGED <<text, eligible, dimVars, normVars, batchVars>>

NextText == FilterEntry \/ FlagPath

SpecText == InitText /\ [][NextText]_vars

(***************************************************************************)
(* The target dimensions of one cropped box.                               *)
(***************************************************************************)
InitDims ==
    /\ crop_w \in 1..MaxCropSide
    /\ crop_h \in 1..MaxCropSide
    /\ dpc = "ready" /\ new_dims = NoDims
    /\ TextIdle /\ NormIdle /\ BatchIdle

ComputeDims ==
    /\ dpc = "ready"
    /\ new_dims' = TargetDims(crop_w, crop_h)
    /\ dpc' = "done"
    /\ UNCHANGED <<crop_w, crop_h, textVars, normVars, batchVars>>

NextDims == ComputeDims

SpecDims == InitDims /\ [][NextDims]_vars

(***************************************************************************)
(* One call of resize_and_center_image.                                    *)
(***************************************************************************)
InitNormalize ==
    /\ \/ img = Corrupt
       \/ \E w \in Sides, h \in Sides, c1 \in Palette, c2 \in CornerPalette :
            \E x1 \in EdgeCoords(w), y1 \in EdgeCoords(h),
               x2 \in CornerCoords(w), y2 \in CornerCoords(h) :
                 img = Painted(w, h, <<x1, y1>>, c1, <<x2, y2>>, c2)
    /\ output_path \in OutputPaths
    /\ dirs \in {{}, {DirName(output_path)}}
    /\ io_fault \in BOOLEAN
    /\ npc = "ready" /\ outcome = NoOutcome
    /\ TextIdle /\ DimIdle /\ BatchIdle

Normalize ==
    /\ npc = "ready"
    /\ outcome' = ResizeAndCenterImage(img, output_path, dirs, io_fault)
    /\ npc' = "returned"
    /\ UNCHANGED <<img, output_path, dirs, io_fault, textVars, dimVars,
                   batchVars>>

NextNormalize == Normalize

SpecNormalize == InitNormalize /\ [][NextNormalize]_vars

(***************************************************************************)
(* The batch: process_directory on a worker thread, start_processing,      *)
(* browse_folder and check_queue on the controller thread.                 *)
(***************************************************************************)
ResizedSuffix == <<"_", "r", "e", "s", "i", "z", "e", "d">>

\* the output folder start_processing derives from the input folder
OutputFolder(folder) ==
    PathJoin(DirName(folder), BaseName(folder) \o ResizedSuffix)

InputFolders == { <<"d">>, <<"d", ".", "v">> }

EntryNames ==
    { <<"a", ".", "p", "n", "g">>, <<"a", ".", "g", "i", "f">>,
      <<"n", ".", "t", "x", "t">> }

Blank ==
    Painted(MidSide, MidSide, <<0, 0>>, <<250, 250, 250, 255>>,
            <<0, 0>>, <<255, 255, 255, 255>>)

Small ==
    Painted(MidSide, MidSide, <<margin + 1, margin + 1>>, Black,
            <<0, 0>>, <<255, 255, 255, 255>>)

Big ==
    Painted(TargetSide + 1, TargetSide + 1, <<0, 0>>, Black,
            <<TargetSide, TargetSide>>, Black)

Wide == Painted(TargetSide + 1, 1, <<0, 0>>, Black, <<TargetSide, 0>>, Black)

BatchImages == {Corrupt, Blank, Small, Big, Wide}

Entries == [name : EntryNames, image : BatchImages]

Listings ==
    { l \in UNION {[1..n -> Entries] : n \in 0..MaxFiles} :
        \A i, j \in DOMAIN l : l[i].name = l[j].name => i = j }

\* the file of the input directory that has this name
FileNamed(name) ==
    (CHOOSE e \in Range(listing) : e.name = name).image

Message(type, value) == [type |-> type, value |-> value]

ProgressMessageOfIndex(i, count) == Message("progress", i)

\* the message put after file i (counted from 0) of the loop
ProgressMessage(i, count) == Message("progress", count)

CountEveryFile(count, result) == count + 1

\* "if result: success_count += 1"
CountSuccess(count, result) == IF result THEN count + 1 ELSE count

\* the body of the while loop of check_queue, for every message of q in turn
RECURSIVE DrainQueue(_, _)
DrainQueue(q, gui) ==
    IF q = <<>> THEN gui
    ELSE LET m == Head(q)
         IN  DrainQueue(Tail(q),
               CASE m.type = "status" -> [gui EXCEPT !.status_var = m.value]
                 [] m.type = "progress" ->
                      [gui EXCEPT !.progress_var = m.value]
                 [] m.type = "max" -> [gui EXCEPT !.progress_max = m.value]
                 [] m.type = "done" -> [gui EXCEPT !.button_state = "normal"]
                 [] OTHER -> gui)

InitBatch ==
    /\ input_folder \in InputFolders
    /\ listing \in Listings
    /\ folders = {input_folder}
    /\ files = {}
    /\ wpc = "idle" /\ image_files = <<>> /\ total_files = 0 /\ idx = 0
    /\ processed_count = 0 /\ success_count = 0
    /\ results = <<>> /\ events = <<>>
    /\ progress_queue = <<>> /\ folder_var = <<>>
    /\ button_state = "normal" /\ progress_var = 0 /\ progress_max = 100
    /\ status_var = <<"Select an input folder to begin">>
    /\ runs = 0
    /\ TextIdle /\ DimIdle /\ NormIdle

Init == InitBatch

\* browse_folder, the dialog not cancelled
BrowseFolder ==
    /\ folder_var' = input_folder
    /\ status_var' = <<"Selected folder", input_folder>>
    /\ UNCHANGED <<button_state, progress_var, progress_max, runs>>
    /\ UNCHANGED <<fsVars, workerVars, progress_queue>>
    /\ UNCHANGED <<textVars, dimVars, normVars>>

\* start_processing, the command of the button (a disabled button has none)
StartProcessing ==
    /\ button_state = "normal"
    /\ IF folder_var = <<>> \/ folder_var \notin folders
       THEN /\ status_var' = <<"Please select a valid input folder">>
            /\ UNCHANGED <<button_state, progress_var, runs, wpc, events,
                           results>>
       ELSE /\ runs < MaxRuns
            /\ button_state' = "disabled"
            /\ progress_var' = 0
            /\ status_var' = <<"Starting processing...">>
            /\ runs' = runs + 1
            /\ wpc' = "started"
            /\ events' = <<>>
            /\ results' = <<>>
    /\ UNCHANGED <<folder_var, progress_max, progress_queue, fsVars>>
    /\ UNCHANGED <<image_files, total_files, idx, processed_count,
                   success_count>>
    /\ UNCHANGED <<textVars, dimVars, normVars>>

\* process_directory up to the loop
WorkerBegin ==
    /\ wpc = "started"
    /\ folders' = folders \cup {OutputFolder(input_folder)}
    /\ LET names == [i \in DOMAIN listing |-> listing[i].name]
           found == SelectSeq(names, IsImageFile)
           put == << Message("max", Len(found)),
                     Message("status", <<"Found", Len(found)>>) >>
       IN  /\ image_files' = found
           /\ total_files' = Len(found)
           /\ progress_queue' = progress_queue \o put
           /\ events' = events \o put
    /\ processed_count' = 0
    /\ success_count' = 0
    /\ idx' = 0
    /\ wpc' = "loop"
    /\ UNCHANGED <<input_folder, listing, files, results, guiVars>>
    /\ UNCHANGED <<textVars, dimVars, normVars>>

\* os.makedirs raises (the path is a file, or may not be created): the
\* exception ends the thread
WorkerMakedirsFails ==
    /\ wpc = "started"
    /\ wpc' = "crashed"
    /\ UNCHANGED <<image_files, total_files, idx, processed_count,
                   success_count, results, events>>
    /\ UNCHANGED <<fsVars, progress_queue, guiVars>>
    /\ UNCHANGED <<textVars, dimVars, normVars>>

\* os.listdir raises (the folder was removed or may not be read)
WorkerListdirFails ==
    /\ wpc = "started"
    /\ folders' = folders \cup {OutputFolder(input_folder)}
    /\ wpc' = "crashed"
    /\ UNCHANGED <<image_files, total_files, idx, processed_count,
                   success_count, results, events>>
    /\ UNCHANGED <<input_folder, listing, files, progress_queue, guiVars>>
    /\ UNCHANGED <<textVars, dimVars, normVars>>

\* one iteration of the loop, up to the call of resize_and_center_image
WorkerFileStart ==
    /\ wpc = "loop"
    /\ idx < Len(image_files)
    /\ LET put == Message("status", <<"Processing", idx + 1, total_files,
                                      image_files[idx + 1]>>)
       IN  /\ progress_queue' = Append(progress_queue, put)
           /\ events' = Append(events, put)
    /\ wpc' = "file"
    /\ UNCHANGED <<image_files, total_files, idx, processed_count,
                   success_count, results>>
    /\ UNCHANGED <<fsVars, guiVars>>
    /\ UNCHANGED <<textVars, dimVars, normVars>>

\* the rest of the iteration: the call, the counters, the progress message
WorkerFileDone ==
    /\ wpc = "file"
    /\ \E write_fault \in BOOLEAN :
         LET filename == image_files[idx + 1]
             out == OutputPath(OutputFolder(input_folder), filename)
             r == ResizeAndCenterImage(FileNamed(filename), out, folders,
                                       write_fault)
             put == ProgressMessage(idx, processed_count + 1)
         IN  /\ files' = IF r.result THEN files \cup {r.saved} ELSE files
             /\ results' = Append(results, [name |-> filename,
                                            result |-> r.result,
                                            stage |-> r.stage,
                                            saved |-> r.saved])
             /\ processed_count' = processed_count + 1
             /\ success_count' = CountSuccess(success_count, r.result)
             /\ progress_queue' = Append(progress_queue, put)
             /\ events' = Append(events, put)
    /\ idx' = idx + 1
    /\ wpc' = "loop"
    /\ UNCHANGED <<input_folder, listing, folders, image_files, total_files,
                   guiVars>>
    /\ UNCHANGED <<textVars, dimVars, normVars>>

\* process_directory after the loop
WorkerFinish ==
    /\ wpc = "loop"
    /\ idx = Len(image_files)
    /\ LET put == << Message("status",
                             <<"Complete", success_count, total_files>>),
                     Message("done", <<>>) >>
       IN  /\ progress_queue' = progress_queue \o put
           /\ events' = events \o put
    /\ wpc' = "finished"
    /\ UNCHANGED <<image_files, total_files, idx, processed_count,
                   success_count, results>>
    /\ UNCHANGED <<fsVars, guiVars>>
    /\ UNCHANGED <<textVars, dimVars, normVars>>

Worker ==
    \/ WorkerBegin
    \/ WorkerMakedirsFails
    \/ WorkerListdirFails
    \/ WorkerFileStart
    \/ WorkerFileDone
    \/ WorkerFinish

\* check_queue, run every 100 ms: it handles every message of the queue
CheckQueue ==
    /\ progress_queue # <<>>
    /\ LET gui == DrainQueue(progress_queue,
                    [status_var |-> status_var,
                     progress_var |-> progress_var,
                     progress_max |-> progress_max,
                     button_state |-> button_state])
       IN  /\ status_var' = gui.status_var
           /\ progress_var' = gui.progress_var
           /\ progress_max' = gui.progress_max
           /\ button_state' = gui.button_state
    /\ progress_queue' = <<>>
    /\ UNCHANGED <<folder_var, runs, fsVars, workerVars>>
    /\ UNCHANGED <<textVars, dimVars, normVars>>

Next ==
    \/ BrowseFolder
    \/ StartProcessing
    \/ WorkerBegin
    \/ WorkerMakedirsFails
    \/ WorkerListdirFails
    \/ WorkerFileStart
    \/ WorkerFileDone
    \/ WorkerFinish
    \/ CheckQueue

Spec == Init /\ [][Next]_vars

(***************************************************************************)
(* The event protocol and the counters of process_directory.               *)
(***************************************************************************)
IsMax(m) == m.type = "max"
IsProgress(m) == m.type = "progress"
IsDone(m) == m.type = "done"

Failed(r) == ~r.result

\* C1: in every run of process_directory the events put so far hold at most
\* one max event, whose value is the number N of files found and which
\* precedes every progress event; the progress events carry 1, 2, ... in
\* that order, one per file processed; done is put only as the last event;
\* and when the run has finished there is exactly one max event, there are
\* exactly N progress events (1..N) and done is the last event, put once.
C1_EventProtocol ==
    LET maxes == SelectSeq(events, IsMax)
        progress == SelectSeq(events, IsProgress)
        dones == SelectSeq(events, IsDone)
    IN  /\ Len(maxes) <= 1
        /\ \A i \in DOMAIN maxes : maxes[i].value = Len(image_files)
        /\ \A i \in DOMAIN events :
             IsProgress(events[i]) =>
               \E j \in 1..(i - 1) : IsMax(events[j])
        /\ wpc \in {"loop", "file", "finished"} =>
             Len(progress) = processed_count
        /\ wpc \in {"started", "crashed"} => events = <<>>
        /\ \A i \in DOMAIN progress : progress[i].value = i
        /\ \A i \in DOMAIN events :
             IsDone(events[i]) => i = Len(events) /\ wpc = "finished"
        /\ wpc = "finished" =>
             /\ Len(maxes) = 1
             /\ Len(progress) = Len(image_files)
             /\ Len(dones) = 1
             /\ IsDone(events[Len(events)])

\* a finished run over two files, one of which failed
C1_Witness ==
    /\ wpc = "finished"
    /\ Len(image_files) = 2
    /\ success_count = 1
    /\ Len(SelectSeq(events, IsProgress)) = 2

CountersConsistent ==
    /\ success_count <= processed_count
    /\ processed_count <= total_files
    /\ total_files = Len(image_files)
    /\ wpc \in {"loop", "file", "finished"} =>
         /\ processed_count = Len(results)
         /\ success_count = Len(results) - Len(SelectSeq(results, Failed))
         /\ \A i \in DOMAIN results : results[i].name = image_files[i]
    /\ wpc = "finished" =>
         /\ processed_count = total_files
         /\ success_count = total_files - Len(SelectSeq(results, Failed))

CountersGrow ==
    wpc \in {"loop", "file"} =>
      (processed_count' >= processed_count /\ success_count' >= success_count)

\* C2: the loop visits every one of the N files whatever the calls return:
\* in every state success_count <= processed_count <= N, processed_count is
\* the number of calls made and success_count the number of them that
\* returned True; when the run has finished processed_count = N and
\* success_count = N - K, K being the number of calls that returned False;
\* and during the loop neither counter decreases.
C2_Counters == []CountersConsistent /\ [][CountersGrow]_vars

\* a finished run in which a file failed and a later one succeeded
C2_Witness ==
    /\ wpc = "finished"
    /\ Len(results) = 2
    /\ ~results[1].result
    /\ results[2].result
    /\ success_count = 1

\* C3: every batch that was started runs to completion: as long as the
\* button is disabled the worker has a step to take or a message waits for
\* check_queue, so that the batch cannot stop before done re-enables the
\* button.
C3_BatchNeverStuck ==
    (wpc # "idle" /\ button_state = "disabled")
    => ENABLED (Worker \/ CheckQueue)

\* C7: after a run in which no write failed, the calls that returned True
\* wrote to pairwise distinct paths, so that the output directory holds one
\* file per success, each named <stem>.png or <stem>_CHECK_PIXELATION.png.
C7_OneOutputPerInput ==
    (wpc = "finished" /\ \A i \in DOMAIN results : results[i].stage # "save")
    => LET done == {i \in DOMAIN results : results[i].result}
           out == OutputFolder(input_folder)
       IN  /\ Cardinality({results[i].saved : i \in done}) = success_count
           /\ \A i \in done :
                LET stem == SplitExt(results[i].name).root
                IN  /\ results[i].saved \in
                         { PathJoin(out, stem \o PngExt),
                           PathJoin(out, stem \o Marker \o PngExt) }
                    /\ results[i].saved \in files

(***************************************************************************)
(* The text functions.                                                     *)
(***************************************************************************)
AllowedExtensions == {<<".">> \o suffix : suffix \in ImageSuffixes}

\* C5: the flagged path of a destination path is that path with the marker
\* inserted once, right before the extension of its file name, or appended
\* when the file name has no extension; the rest of the path is unchanged
\* (stated for the paths whose file name does not start with a dot).
C5_MarkerBeforeExtension ==
    (tpc = "flagged" /\ IsEntryName(BaseName(text))
       /\ Head(BaseName(text)) # ".")
    => flagged_path = SplitExt(text).root \o Marker \o SplitExt(text).ext

\* C6: a directory entry is eligible if and only if its extension, lower
\* case, is one of .png, .jpg, .jpeg, .webp, .gif.
C6_EligibleIffExtension ==
    tpc = "filtered" =>
      (eligible <=> Lower(SplitExt(text).ext) \in AllowedExtensions)

(***************************************************************************)
(* resize_and_center_image.                                                *)
(***************************************************************************)
\* the pixels with a composited R, G or B below 250
ContentPixels(image) ==
    {p \in DOMAIN image.px : \E k \in 1..3 : Composite(image.px[p])[k] < 250}

\* the minimal rectangle covering the content pixels, expanded by 5 pixels
\* on each side and clamped to the image
ExpandedBox(image) ==
    LET xs == {p[1] : p \in ContentPixels(image)}
        ys == {p[2] : p \in ContentPixels(image)}
    IN  << Max(0, SetMin(xs) - 5), Max(0, SetMin(ys) - 5),
           Min(image.W, SetMax(xs) + 6), Min(image.H, SetMax(ys) + 6) >>

HasContent(image) == image.ok /\ ContentPixels(image) # {}

CropWidth(image) == ExpandedBox(image)[3] - ExpandedBox(image)[1]
CropHeight(image) == ExpandedBox(image)[4] - ExpandedBox(image)[2]
ShortSide(image) == Min(CropWidth(image), CropHeight(image))
LongSide(image) == Max(CropWidth(image), CropHeight(image))

HasMarker(p) ==
    \E i \in 1..(Len(p) - Len(Marker) + 1) :
      SubSeq(p, i, i + Len(Marker) - 1) = Marker

\* C4: whenever resize_and_center_image writes an output, it writes it to
\* the flagged path (a path with the marker, not the destination path) if
\* and only if the short side of the crop is below 485, and to exactly the
\* destination path otherwise.
C4_FlaggedIffShortSide ==
    (npc = "returned" /\ outcome.saved # <<>>)
    => /\ HasContent(img)
       /\ outcome.result
       /\ ShortSide(img) < 485
            <=> (outcome.saved # output_path /\ HasMarker(outcome.saved))
       /\ ShortSide(img) >= 485 => outcome.saved = output_path
       /\ ShortSide(img) < 485 => outcome.saved = outcome.flagged_path

\* an output written to the flagged path for a crop whose long side is not
\* below 485
C4_Witness ==
    /\ npc = "returned"
    /\ outcome.result
    /\ HasContent(img)
    /\ ShortSide(img) < 485
    /\ LongSide(img) >= 485
    /\ outcome.saved # output_path

\* C8: an image that decodes, has content and whose crop has a short side
\* below 485 is never rejected: both target dimensions are at least 1 and,
\* the output directory existing and the write not failing, the flagged
\* output is written and the function returns True.
C8_SmallNeverRejected ==
    ( /\ npc = "returned"
      /\ HasContent(img)
      /\ ShortSide(img) < 485
      /\ ~io_fault
      /\ DirName(output_path) \in dirs
      /\ "." \notin Range(DirName(output_path)) )
    => /\ outcome.new_w >= 1
       /\ outcome.new_h >= 1
       /\ outcome.result
       /\ outcome.saved # <<>>
       /\ outcome.saved = outcome.flagged_path

\* C10: for an image with content the crop box is the minimal rectangle
\* covering the content pixels, expanded by 5 pixels on each side and
\* clamped to the image; it is not empty, lies in the image and holds every
\* content pixel; and an image without content has no crop box.
C10_CropBox ==
    npc = "returned" =>
      /\ HasContent(img) =>
           /\ outcome.bbox = ExpandedBox(img)
           /\ 0 <= outcome.bbox[1] /\ outcome.bbox[1] < outcome.bbox[3]
           /\ outcome.bbox[3] <= img.W
           /\ 0 <= outcome.bbox[2] /\ outcome.bbox[2] < outcome.bbox[4]
           /\ outcome.bbox[4] <= img.H
           /\ \A p \in ContentPixels(img) :
                /\ outcome.bbox[1] <= p[1] /\ p[1] < outcome.bbox[3]
                /\ outcome.bbox[2] <= p[2] /\ p[2] < outcome.bbox[4]
      /\ ~HasContent(img) =>
           outcome.bbox = <<>> /\ outcome.stage \in {"open", "no_subject"}

\* a crop box whose margin is cut at the left edge and at the bottom edge,
\* and is whole at the top and at the right
C10_Witness ==
    /\ npc = "returned"
    /\ HasContent(img)
    /\ Cardinality(ContentPixels(img)) = 2
    /\ outcome.bbox # <<>>
    /\ outcome.bbox[1] = 0
    /\ \E p \in ContentPixels(img) : p[1] < 5
    /\ outcome.bbox[3] < img.W
    /\ outcome.bbox[2] > 0
    /\ outcome.bbox[4] = img.H
    /\ \E p \in ContentPixels(img) : p[2] + 6 > img.H

(***************************************************************************)
(* The target dimensions.                                                  *)
(***************************************************************************)
\* the integers nearest to 485 * s / l (two of them when it ends in .5)
NearestIntegers(s, l) ==
    {n \in {(485 * s) \div l, (485 * s) \div l + 1} :
       2 * (485 * s - n * l) <= l /\ 2 * (n * l - 485 * s) <= l}

TargetLong == IF crop_w > crop_h THEN new_dims.new_w ELSE new_dims.new_h
TargetShort == IF crop_w > crop_h THEN new_dims.new_h ELSE new_dims.new_w

\* C9, as stated: the longer target side is 485 and the shorter one is
\* round(shortSide * 485 / longSide); both are 485 when w = h.
C9_ShorterSideRounded ==
    dpc = "done" =>
      /\ TargetLong = 485
      /\ TargetShort \in NearestIntegers(Min(crop_w, crop_h),
                                         Max(crop_w, crop_h))
      /\ crop_w = crop_h => new_dims = [new_w |-> 485, new_h |-> 485]

\* C9, amended: the longer target side is 485 and the shorter one is the
\* quotient shortSide * 485 / longSide truncated, not rounded: its floor
\* when longSide does not divide shortSide * 485 and otherwise the exact
\* quotient or, the product of doubles falling short of it, one less; both
\* are 485 when w = h.
C9_ShorterSideTruncated ==
    dpc = "done" =>
      LET s == Min(crop_w, crop_h)
          l == Max(crop_w, crop_h)
      IN  /\ TargetLong = 485
          /\ (485 * s) % l # 0 => TargetShort = (485 * s) \div l
          /\ (485 * s) % l = 0 =>
               TargetShort \in {(485 * s) \div l - 1, (485 * s) \div l}
          /\ crop_w = crop_h => new_dims = [new_w |-> 485, new_h |-> 485]

\* a crop whose shorter target side is below the rounded quotient
C9_Witness ==
    /\ dpc = "done"
    /\ crop_w > crop_h
    /\ new_dims.new_h < RoundScale(crop_h, crop_w)
    /\ new_dims.new_h >= 1

====
